---- MODULE Spec2Model ----
(***************************************************************************)
(* A model of bind-to-tinydns.c (version 0.4): the conversion of a BIND    *)
(* zone file read from stdin into tinydns-data lines written to a temp     *)
(* file that is renamed over the destination on success.                   *)
(*                                                                         *)
(* C strings are sequences of byte values (1..255, the terminating NUL is  *)
(* implicit).  A 32-bit integer is kept as its bit pattern, written as the *)
(* signed value in -2^31 .. 2^31-1: an unsigned int u >= 2^31 is the       *)
(* integer u - 2^32.  Unsigned and signed comparisons are separate         *)
(* operators over that pattern.                                            *)
(***************************************************************************)
EXTENDS Integers, Sequences, FiniteSets, TLC

(***************************************************************************)
(* Characters.                                                             *)
(***************************************************************************)

\* the printable ASCII characters, 32 (space) to 126 (~), in order; the grave
\* accent (96), which a string literal cannot hold, is spelled out
AsciiPrintable ==
  << " ", "!", "\"", "#", "$", "%", "&", "'", "(", ")", "*", "+", ",", "-",
     ".", "/", "0", "1", "2", "3", "4", "5", "6", "7", "8", "9", ":", ";",
     "<", "=", ">", "?", "@", "A", "B", "C", "D", "E", "F", "G", "H", "I",
     "J", "K", "L", "M", "N", "O", "P", "Q", "R", "S", "T", "U", "V", "W",
     "X", "Y", "Z", "[", "\\", "]", "^", "_", "grave", "a", "b", "c", "d", "e",
     "f", "g", "h", "i", "j", "k", "l", "m", "n", "o", "p", "q", "r", "s",
     "t", "u", "v", "w", "x", "y", "z", "{", "|", "}", "~" >>

\* the byte value of a character written as a one-character string
Ord(c) ==
  LET IndexOf(t) == CHOOSE k \in 1..Len(t) : t[k] = c
  IN  IF c = "\n" THEN 10
      ELSE IF c = "\t" THEN 9
      ELSE IF c = "\r" THEN 13
      ELSE 31 + IndexOf(AsciiPrintable)

\* the C string spelled by a tuple of one-character strings
S(t) == [k \in 1..Len(t) |-> Ord(t[k])]

\* the character constants of the source
Tab == 9
LF == 10
CR == 13
Space == 32
DQuote == 34
Dollar == 36
LParen == 40
RParen == 41
Comma == 44
Minus == 45
Dot == 46
Slash == 47
Zero == 48
Nine == 57
ColonChar == 58
Semicolon == 59
UpperX == 88
Backslash == 92
LowerD == 100
LowerO == 111
LowerX == 120
LBrace == 123
RBrace == 125

\* <ctype.h> in the C locale, for an argument in 0..255
isprint(c) == c >= 32 /\ c <= 126
isdigit(c) == c >= 48 /\ c <= 57

\* tolower() of one byte, as strcasecmp applies it
tolower(c) == IF c >= 65 /\ c <= 90 THEN c + 32 ELSE c

LowerStr(s) == [k \in 1..Len(s) |-> tolower(s[k])]

\* strcasecmp(a, b) == 0
StrCaseEq(a, b) == LowerStr(a) = LowerStr(b)

\* s from position k (1-based) to its end: the C string at s + (k-1)
StrFrom(s, k) == SubSeq(s, k, Len(s))

\* strstr(s, "..") != NULL
HasDotDot(s) == \E k \in 1..(Len(s) - 1) : s[k] = Dot /\ s[k+1] = Dot

(***************************************************************************)
(* 32-bit arithmetic on bit patterns.                                      *)
(***************************************************************************)

\* the two 16-bit halves of a bit pattern
Hi16(x) == (x \div 65536) % 65536
Lo16(x) == x % 65536

\* the bit pattern with the given halves
FromHalves(hi, lo) == (IF hi >= 32768 THEN hi - 65536 ELSE hi) * 65536 + lo

\* x * k modulo 2^32, for 0 <= k <= 32768
WrapMul(x, k) ==
  LET l == Lo16(x) * k
  IN  FromHalves((Hi16(x) * k + (l \div 65536)) % 65536, l % 65536)

\* x + y modulo 2^32
WrapAdd(x, y) ==
  LET l == Lo16(x) + Lo16(y)
  IN  FromHalves((Hi16(x) + Hi16(y) + (l \div 65536)) % 65536, l % 65536)

\* x * k modulo 2^32, for 0 <= k < 2^30: unsigned multiplication
UMul(x, k) ==
  WrapAdd(WrapMul(WrapMul(x, k \div 32768), 32768), WrapMul(x, k % 32768))

\* the comparison a > b of two unsigned ints
UGt(a, b) ==
  \/ Hi16(a) > Hi16(b)
  \/ Hi16(a) = Hi16(b) /\ Lo16(a) > Lo16(b)

\* whether the exact value of x * k + d, for int x and 0 <= d < k < 32768,
\* lies outside int's range: signed overflow, which C leaves undefined
SignedMulAddOverflows(x, k, d) ==
  IF x >= 0 THEN x > (2147483647 - d) \div k
  ELSE (-x - 1) > (2147483647 - (k - d - 1)) \div k

\* x * -1 for an int x, wrapped
NegInt(x) == IF x = -2147483647 - 1 THEN x ELSE -x

\* whether the exact value of x + y lies outside int's range
SignedAddOverflows(x, y) ==
  \/ y > 0 /\ x > 2147483647 - y
  \/ y < 0 /\ x < (-2147483647 - 1) - y

\* the decimal digits of n >= 0, as printf's %d writes them
RECURSIVE DecDigits(_)
DecDigits(n) ==
  IF n < 10 THEN << 48 + n >>
  ELSE Append(DecDigits(n \div 10), 48 + (n % 10))

\* printf("%d", x)
FormatD(x) ==
  IF x >= 0 THEN DecDigits(x)
  ELSE LET d == (10 - (x % 10)) % 10   \* the last digit of |x|
       IN  IF x > -10 THEN << 45, 48 + d >>
           ELSE << 45 >> \o Append(DecDigits(-((x + d) \div 10)), 48 + d)

\* the quotient and remainder of the unsigned int x by b, 2 <= b <= 16
UDivMod(x, b) ==
  LET t == (Hi16(x) % b) * 65536 + Lo16(x)
  IN  [q |-> FromHalves(Hi16(x) \div b, t \div b), r |-> t % b]

\* the character of digit d < 16; upper selects A-F over a-f
DigitChar(d, upper) ==
  IF d < 10 THEN 48 + d ELSE IF upper THEN 55 + d ELSE 87 + d

\* the digits of the unsigned int x in base b, as printf's %u, %o, %x and %X
\* write them
RECURSIVE UDigits(_, _, _)
UDigits(x, b, upper) ==
  LET dm == UDivMod(x, b)
  IN  IF dm.q = 0 THEN << DigitChar(dm.r, upper) >>
      ELSE Append(UDigits(dm.q, b, upper), DigitChar(dm.r, upper))

\* n zeros, none for n <= 0
Zeros(n) == [k \in 1..n |-> Zero]

\* printf("%0<width><base>", x) for an int x and base d, o, x or X
FormatPadded(x, width, base) ==
  LET Padded(sign, digits) ==
        sign \o Zeros(width - Len(sign) - Len(digits)) \o digits
  IN  Padded(IF base = LowerD /\ x < 0 THEN << Minus >> ELSE << >>,
             IF base = LowerD THEN (IF x < 0 THEN StrFrom(FormatD(x), 2)
                                    ELSE FormatD(x))
             ELSE IF base = LowerO THEN UDigits(x, 8, FALSE)
             ELSE UDigits(x, 16, base = UpperX))

\* the escape written in decimal, the base sanitize_string reads escapes in
Decimal3(n) ==
  << 92, 48 + (n \div 100), 48 + ((n \div 10) % 10), 48 + (n % 10) >>

\* printf("\\%03o", n) for 0 <= n <= 255: a backslash and three octal digits
Octal3(n) ==
  << 92, 48 + (n \div 64), 48 + ((n \div 8) % 8), 48 + (n % 8) >>

(***************************************************************************)
(* Program constants.                                                      *)
(***************************************************************************)

DOMAIN_LEN == 255
MAX_TOKENS == 32
MAX_PAREN == 3
MAX_GEN_PARTS == 10
DEFAULT_TTL == 86400
LINE_LEN == 8192

\* the largest TTL the checks at lines 616, 747 and 758 compare against
MAX_TTL == 2147483646

(***************************************************************************)
(* sanitize_string                                                         *)
(***************************************************************************)

\* sprintf (..., "\\%03o", c) of a char c read from the source string,
\* followed by real_len += 4: where char is signed, a byte above 127 is
\* negative, %o prints the 11 octal digits of its 32-bit pattern, and the
\* NUL stored at real_len keeps the first four characters, \377
CharOctal(c, signed) ==
  IF signed /\ c >= 128 THEN Octal3(255) ELSE Octal3(c)

\* isprint (c) of a char c read from the source string; a negative char is
\* outside isprint's domain, and glibc's table answers 0 for it
CharIsPrint(c, signed) == c < 128 /\ isprint(c)

\* the loop of sanitize_string from position k of src, with temp.text = text
\* and temp.len = len (temp.real_len is Len(text)); ret is the return value
RECURSIVE SanLoop(_, _, _, _, _)
SanLoop(src, k, text, len, signed) ==
  IF k > Len(src) THEN [ret |-> 0, text |-> text, len |-> len]
  ELSE IF len = DOMAIN_LEN THEN [ret |-> 1, text |-> << >>, len |-> 0]
  ELSE IF CharIsPrint(src[k], signed) /\ src[k] # Backslash /\ src[k] # ColonChar
    THEN SanLoop(src, k + 1, Append(text, src[k]), len + 1, signed)
  ELSE IF src[k] = Backslash
    THEN IF k + 1 > Len(src) THEN [ret |-> 1, text |-> << >>, len |-> 0]
         ELSE IF ~isdigit(src[k+1])
           THEN IF \/ src[k+1] = ColonChar \/ src[k+1] = Backslash
                   \/ src[k+1] = Dot \/ ~CharIsPrint(src[k+1], signed)
                  THEN SanLoop(src, k + 2, text \o CharOctal(src[k+1], signed),
                               len + 1, signed)
                  ELSE SanLoop(src, k + 2, Append(text, src[k+1]), len + 1, signed)
         ELSE IF k + 3 <= Len(src) /\ isdigit(src[k+2]) /\ isdigit(src[k+3])
           THEN LET num == (src[k+1] - 48) * 100 + (src[k+2] - 48) * 10
                           + (src[k+3] - 48)
                IN  IF num > 255 THEN [ret |-> 1, text |-> << >>, len |-> 0]
                    ELSE IF isprint(num) /\ num # ColonChar /\ num # Dot
                            /\ num # Backslash
                      THEN SanLoop(src, k + 4, Append(text, num), len + 1, signed)
                      ELSE SanLoop(src, k + 4, text \o Octal3(num), len + 1, signed)
         ELSE [ret |-> 1, text |-> << >>, len |-> 0]
  ELSE SanLoop(src, k + 1, text \o CharOctal(src[k], signed), len + 1, signed)

\* sanitize_string (dest, src): ret = 0 and dest = [text, len] on success
sanitize_string(src, signed) == SanLoop(src, 1, << >>, 0, signed)

(***************************************************************************)
(* qualify_domain                                                          *)
(***************************************************************************)

\* a struct string: text and len (real_len is Len(text))
MkString(text, len) == [text |-> text, len |-> len]

QFail == [ret |-> 1, text |-> << >>, len |-> 0]

\* qualify_domain (dest, name, origin) for a non-NULL origin
qualify_domain(name, origin, signed) ==
  LET Qualified(sname) ==
    LET t == sname.text
    IN
      IF sname.ret # 0 THEN QFail
      ELSE IF sname.len # 0
        THEN IF Len(t) >= 2 /\ t[1] = Dot THEN QFail
             ELSE IF HasDotDot(t) THEN QFail
             ELSE IF t = S(<< "@" >>)
               THEN IF origin.len = 0 THEN QFail
                    ELSE [ret |-> 0, text |-> origin.text, len |-> origin.len]
             ELSE IF t[Len(t)] = Dot
               THEN [ret |-> 0, text |-> t, len |-> sname.len]
             ELSE IF origin.len = 0 THEN QFail
             ELSE IF origin.text = S(<< "." >>)
               THEN IF sname.len + 1 > DOMAIN_LEN THEN QFail
                    ELSE [ret |-> 0, text |-> Append(t, Dot),
                          len |-> sname.len + 1]
             ELSE IF sname.len + 1 + origin.len > DOMAIN_LEN THEN QFail
             ELSE [ret |-> 0, text |-> Append(t, Dot) \o origin.text,
                   len |-> sname.len + 1 + origin.len]
      ELSE IF origin.len = 0 THEN QFail
      ELSE [ret |-> 0, text |-> origin.text, len |-> origin.len]
  IN  Qualified(sanitize_string(name, signed))

(***************************************************************************)
(* str_to_uint                                                             *)
(***************************************************************************)

\* the factor a time unit multiplies its part by, 0 for any other character
UnitFactor(c) ==
  IF c = Ord("w") \/ c = Ord("W") THEN 604800
  ELSE IF c = Ord("d") \/ c = Ord("D") THEN 86400
  ELSE IF c = Ord("h") \/ c = Ord("H") THEN 3600
  ELSE IF c = Ord("m") \/ c = Ord("M") THEN 60
  ELSE IF c = Ord("s") \/ c = Ord("S") THEN 1
  ELSE 0

\* the locals of str_to_uint before its loop; ret is *ret, and done is set
\* where the function returns from inside the loop
StrToUintInit ==
  [in_time_fmt |-> FALSE, in_part |-> FALSE, total |-> 0, part |-> 0,
   ret |-> 0, done |-> FALSE]

\* one pass of the loop of str_to_uint, on the character c; total and part
\* are unsigned
StrToUintChar(st, c, allow_time_fmt) ==
  IF isdigit(c)
    THEN [st EXCEPT !.in_part = TRUE,
                    !.part = WrapAdd(WrapMul(st.part, 10), c - 48)]
  ELSE IF ~allow_time_fmt \/ ~st.in_part \/ UnitFactor(c) = 0
    THEN [st EXCEPT !.ret = 1, !.done = TRUE]
  ELSE [st EXCEPT !.in_time_fmt = TRUE, !.in_part = FALSE,
                  !.total = WrapAdd(st.total, UMul(st.part, UnitFactor(c))),
                  !.part = 0]

\* the loop of str_to_uint from position k
RECURSIVE StrToUintLoop(_, _, _, _)
StrToUintLoop(st, str, k, allow_time_fmt) ==
  IF st.done \/ k > Len(str) THEN st
  ELSE StrToUintLoop(StrToUintChar(st, str[k], allow_time_fmt), str, k + 1,
                     allow_time_fmt)

\* str_to_uint (string, allow_time_fmt, &ret): the value and *ret
str_to_uint(str, allow_time_fmt) ==
  LET AfterLoop(st) ==
        IF str = << >> \/ st.done THEN [ret |-> 1, val |-> 0]
        ELSE IF st.in_time_fmt /\ st.in_part THEN [ret |-> 1, val |-> 0]
        ELSE [ret |-> 0, val |-> IF st.in_time_fmt THEN st.total ELSE st.part]
  IN  AfterLoop(StrToUintLoop(StrToUintInit, str, 1, allow_time_fmt))

(***************************************************************************)
(* sanitize_ip                                                             *)
(***************************************************************************)

\* strchr (src, c) for the string starting at position k of s: the position
\* of the first c at or after k, 0 for NULL
StrChr(s, k, c) ==
  IF \E j \in k..Len(s) : s[j] = c
    THEN CHOOSE j \in k..Len(s) : s[j] = c /\ \A h \in k..(j-1) : s[h] # c
    ELSE 0

\* for (total = 0; src < dot; src++): the octet from position k up to dot,
\* total an int.  ub records that total * 10 + digit left int's range, which
\* is undefined; total then holds the wrapped value
RECURSIVE IpOctetLoop(_, _, _)
IpOctetLoop(s, dot, st) ==
  IF st.k >= dot \/ st.bad THEN st
  ELSE IF s[st.k] < Zero \/ s[st.k] > Nine
    THEN [st EXCEPT !.bad = TRUE]
  ELSE IpOctetLoop(s, dot,
                   [k |-> st.k + 1,
                    bad |-> FALSE,
                    total |-> WrapAdd(WrapMul(st.total, 10), s[st.k] - 48),
                    ub |-> st.ub \/ SignedMulAddOverflows(st.total, 10,
                                                           s[st.k] - 48)])

IpOctet(s, k, dot, total, ub) ==
  IpOctetLoop(s, dot, [k |-> k, bad |-> FALSE, total |-> total, ub |-> ub])

\* the loop of sanitize_ip: octet i (0..3) starts at position k, dest holds
\* what has been written
RECURSIVE IpLoop(_, _, _, _, _)
IpLoop(s, k, i, dest, ub) ==
  IF i = 4 THEN [ret |-> 0, text |-> dest, ub |-> ub]
  ELSE LET Octet(dot, o) ==
             IF dot = 0 \/ dot = k THEN [ret |-> 1, text |-> << >>, ub |-> ub]
             ELSE IF o.bad THEN [ret |-> 1, text |-> << >>, ub |-> o.ub]
             ELSE IF o.total > 255 THEN [ret |-> 1, text |-> << >>, ub |-> o.ub]
             ELSE IpLoop(s, dot + 1, i + 1,
                         dest \o FormatD(o.total)
                              \o (IF i < 3 THEN << Dot >> ELSE << >>),
                         o.ub)
           UpTo(dot) == Octet(dot, IpOctet(s, k, dot, 0, ub))
       IN  UpTo(IF i < 3 THEN StrChr(s, k, Dot) ELSE Len(s) + 1)

\* what a call sanitize_ip (dest, src) can do: return 1, return 0 with dest
\* written, or, once a signed overflow has happened, whatever the build
\* makes of it: carry on with the wrapped value, or trap
sanitize_ip(src) ==
  LET Outcomes(r) ==
        IF r.ub THEN { [ret |-> r.ret, text |-> r.text], [ret |-> 2, text |-> << >>] }
        ELSE { [ret |-> r.ret, text |-> r.text] }
  IN  Outcomes(IpLoop(src, 1, 0, << >>, FALSE))

(***************************************************************************)
(* tokenize                                                                *)
(***************************************************************************)

\* The locals of tokenize at the start of a call.  line holds the bytes of
\* the static buffer line[0..i-1] as the scan left them (0 is a NUL the scan
\* stored), so i is Len(line); token[k] is the position (1-based) in line
\* where token k starts, 0 for the blank_token " ".  fatal is the message of
\* a call of fatal(), "" if none; overrun records a store to token[k] with
\* k >= MAX_TOKENS, past the end of main's array.
TokInit ==
  [line |-> << >>, in_doublequote |-> FALSE, paren_level |-> 0,
   in_quote |-> FALSE, set_in_quote |-> FALSE, in_txt |-> FALSE,
   num_tokens |-> 0, in_token |-> FALSE, found_nonblank_token |-> FALSE,
   token |-> << >>, fatal |-> "", overrun |-> FALSE, stop |-> FALSE]

\* the C string at position p of a buffer: up to the next NUL or the end
CStrAt(buf, p) ==
  LET ends == {j \in p..Len(buf) : buf[j] = 0}
      e == IF ends = {} THEN Len(buf) + 1
           ELSE CHOOSE j \in ends : \A h \in ends : j <= h
  IN  SubSeq(buf, p, e - 1)

\* the text token k (1-based) of the state points at
TokenText(st, k) ==
  IF st.token[k] = 0 THEN S(<< " " >>) ELSE CStrAt(st.line, st.token[k])

\* token[num_tokens] = p; num_tokens++
PushToken(st, p) ==
  [st EXCEPT !.token = Append(@, p), !.num_tokens = @ + 1,
             !.overrun = @ \/ st.num_tokens >= MAX_TOKENS]

\* one pass of the body of the for loop at line 376, on character c = line[i]
TokChar(st0, c) ==
  LET i == Len(st0.line)
      st1 == IF st0.set_in_quote
               THEN [st0 EXCEPT !.in_quote = TRUE, !.set_in_quote = FALSE]
               ELSE st0
      keep == [st1 EXCEPT !.line = Append(@, c)]
      nul == [st1 EXCEPT !.line = Append(@, 0)]
      esc == c = Backslash /\ ~st1.in_quote
      st2 == IF esc THEN [st1 EXCEPT !.set_in_quote = TRUE] ELSE st1
      keep2 == [st2 EXCEPT !.line = Append(@, c)]
      nul2 == [st2 EXCEPT !.line = Append(@, 0), !.in_token = FALSE]
  IN  IF ~esc /\ st1.in_quote /\ c # LF
        THEN [keep EXCEPT !.in_quote = FALSE]
      ELSE IF st2.in_doublequote /\ c # DQuote THEN keep2
      ELSE IF c = Semicolon
        \* line[i] = '\0' and break: i stays, the next fgets stores over it
        THEN [st2 EXCEPT !.in_token = FALSE, !.stop = TRUE]
      ELSE IF c = LParen
        THEN IF st2.paren_level + 1 > MAX_PAREN
               THEN [nul2 EXCEPT !.fatal = "too many nested parentheses"]
               ELSE [nul2 EXCEPT !.paren_level = @ + 1]
      ELSE IF c = RParen
        THEN IF st2.paren_level - 1 < 0
               THEN [nul2 EXCEPT !.fatal = "missing opening parenthesis"]
               ELSE [nul2 EXCEPT !.paren_level = @ - 1]
      ELSE IF c = DQuote
        THEN LET z == [st2 EXCEPT !.line = Append(@, 0)]
             IN  IF st2.in_doublequote
                   THEN [z EXCEPT !.in_token = FALSE, !.in_doublequote = FALSE]
                 ELSE IF ~st2.in_txt
                         /\ (\/ st2.num_tokens = 0
                             \/ ~StrCaseEq(TokenText(z, st2.num_tokens),
                                           S(<< "t", "x", "t" >>)))
                   THEN [z EXCEPT !.fatal = "improper use of double-quotes"]
                 ELSE [PushToken(z, i + 2) EXCEPT !.in_txt = TRUE,
                         !.in_token = TRUE, !.in_doublequote = TRUE]
      ELSE IF c = Space \/ c = Tab
        THEN IF i = 0 THEN PushToken(keep2, 0) ELSE nul2
      ELSE IF c = LF \/ c = CR THEN nul2
      ELSE IF ~st2.in_token
        THEN IF st2.num_tokens >= MAX_TOKENS
               THEN [keep2 EXCEPT !.fatal = "too many tokens in RR"]
               ELSE [PushToken(keep2, i + 1) EXCEPT !.in_token = TRUE,
                       !.found_nonblank_token = TRUE]
      ELSE keep2

\* the for loop at line 376 over the physical line ln that fgets stored at
\* line + i, from its character k on
RECURSIVE TokLine(_, _, _)
TokLine(st, ln, k) ==
  IF k > Len(ln) \/ st.fatal # "" \/ st.stop THEN st
  ELSE TokLine(TokChar(st, ln[k]), ln, k + 1)

\* one pass of the do loop at line 370 for a line fgets returned
TokPhysicalLine(st, ln) == [TokLine(st, ln, 1) EXCEPT !.stop = FALSE]

\* the token texts an entry's handler reads
TokenTexts(st) == [k \in 1..st.num_tokens |-> TokenText(st, k)]

\* the value tokenize returns once paren_level is 0
TokReturn(st) == IF st.found_nonblank_token THEN st.num_tokens ELSE 0

(***************************************************************************)
(* parse_gen_string and construct_gen_output                               *)
(***************************************************************************)

DOMAIN_STR_LEN == DOMAIN_LEN * 4 + 1

\* the character at position p of a C string, 0 (the NUL) past its end
At(s, p) == IF p >= 1 /\ p <= Len(s) THEN s[p] ELSE 0

\* a part of a $GENERATE template: a literal (parts[i] != NULL; start is the
\* position parts[i] points at) or a placeholder (parts[i] == NULL) with
\* offsets[i], widths[i] and bases[i]
LitPart(start) ==
  [lit |-> TRUE, start |-> start, offset |-> 0, width |-> 0, base |-> LowerD]
HolePart(offset, width, base) ==
  [lit |-> FALSE, start |-> 0, offset |-> offset, width |-> width, base |-> base]

\* for (found = 0; *ptr >= '0' && *ptr <= '9'; ptr++) acc = acc * 10 + digit,
\* from position p with acc an int: the value, the position the loop stops
\* at, found, and whether acc left int's range (undefined; val is wrapped)
RECURSIVE DigitLoop(_, _)
DigitLoop(s, st) ==
  IF isdigit(At(s, st.end))
    THEN DigitLoop(s, [val |-> WrapAdd(WrapMul(st.val, 10), s[st.end] - 48),
                       end |-> st.end + 1,
                       found |-> TRUE,
                       ub |-> st.ub \/ SignedMulAddOverflows(st.val, 10,
                                                              s[st.end] - 48)])
    ELSE st

DigitRun(s, p, acc, found, ub) ==
  DigitLoop(s, [val |-> acc, end |-> p, found |-> found, ub |-> ub])

\* the body of if (*(ptr+1) == '{') at line 514, for a '$' at position k:
\* the placeholder read, the position of the closing brace, or a fatal
ParseBraces(s, k) ==
  LET neg == At(s, k + 2) = Minus
      res(fatal, part, end, ub) ==
        [fatal |-> fatal, part |-> part, end |-> end, ub |-> ub]
      none == HolePart(0, 0, LowerD)
      Width(o, offset, w) ==
        IF ~w.found \/ (At(s, w.end) # Comma /\ At(s, w.end) # RBrace)
          THEN res("parse error in $GENERATE curly braces (at width)", none, 0,
                   o.ub \/ w.ub)
        ELSE IF At(s, w.end) = RBrace
          THEN res("", HolePart(offset, w.val, LowerD), w.end, o.ub \/ w.ub)
        ELSE IF At(s, w.end + 1) \notin {LowerD, LowerO, LowerX, UpperX}
          THEN res("$GENERATE has invalid base", none, 0, o.ub \/ w.ub)
        ELSE IF At(s, w.end + 2) # RBrace
          THEN res("parse error in $GENERATE (curly braces not closed after base)",
                   none, 0, o.ub \/ w.ub)
        ELSE res("", HolePart(offset, w.val, At(s, w.end + 1)), w.end + 2,
                 o.ub \/ w.ub)
      Offset(o) ==
        IF ~o.found \/ (At(s, o.end) # Comma /\ At(s, o.end) # RBrace)
          THEN res("parse error in $GENERATE curly braces (at offset)", none, 0,
                   o.ub)
        ELSE IF At(s, o.end) = RBrace
          THEN res("", HolePart(IF neg THEN NegInt(o.val) ELSE o.val, 0, LowerD),
                   o.end, o.ub)
        ELSE Width(o, IF neg THEN NegInt(o.val) ELSE o.val,
                   DigitRun(s, o.end + 1, 0, FALSE, FALSE))
  IN  Offset(DigitRun(s, IF neg THEN k + 3 ELSE k + 2, 0, FALSE, FALSE))

TooManyParts == "$GENERATE directive has too many parts"

\* the for loop of parse_gen_string from position k of line: parts is the
\* array so far and nuls the positions where *ptr = '\0' was stored
RECURSIVE GenScan(_, _, _, _, _, _)
GenScan(s, k, in_quote, parts, nuls, ub) ==
  LET done(fatal) == [fatal |-> fatal, parts |-> parts, nuls |-> nuls, ub |-> ub]
  IN
  IF k > Len(s) THEN done("")
  ELSE IF in_quote THEN GenScan(s, k + 1, FALSE, parts, nuls, ub)
  ELSE IF s[k] = Backslash THEN GenScan(s, k + 1, TRUE, parts, nuls, ub)
  ELSE IF s[k] # Dollar THEN GenScan(s, k + 1, FALSE, parts, nuls, ub)
  ELSE IF At(s, k + 1) = Dollar
    \* "$$": ptr++; continue -- both characters stay in the literal part
    THEN GenScan(s, k + 2, FALSE, parts, nuls, ub)
  ELSE IF Len(parts) >= MAX_GEN_PARTS THEN done(TooManyParts)
  ELSE
    LET last == parts[Len(parts)]
        Placed(br, parts1) ==
          IF br.fatal # "" THEN done(br.fatal)
          ELSE IF At(s, br.end + 1) = 0
            THEN GenScan(s, br.end + 1, FALSE, parts1, nuls \cup {k},
                         ub \/ br.ub)
          ELSE IF Len(parts1) >= MAX_GEN_PARTS THEN done(TooManyParts)
          ELSE GenScan(s, br.end + 1, FALSE,
                       Append(parts1, LitPart(br.end + 1)), nuls \cup {k},
                       ub \/ br.ub)
        Hole(br) ==
          Placed(br, IF last.lit /\ last.start = k
                       THEN [parts EXCEPT ![Len(parts)] = br.part]
                       ELSE Append(parts, br.part))
    IN  Hole(IF At(s, k + 1) = LBrace THEN ParseBraces(s, k)
             ELSE [fatal |-> "", part |-> HolePart(0, 0, LowerD), end |-> k,
                   ub |-> FALSE])

\* the text of the literal part that starts at position p: up to the next
\* stored NUL or the end of the line
LitText(s, nuls, p) ==
  LET ends == {j \in nuls : j >= p}
      e == IF ends = {} THEN Len(s) + 1
           ELSE CHOOSE j \in ends : \A h \in ends : j <= h
  IN  SubSeq(s, p, e - 1)

\* parse_gen_string (line, ...): the parts, each literal with its text; fatal
\* is the message of a call of fatal(), "" if none
parse_gen_string(line) ==
  LET Scanned(r) ==
        [fatal |-> r.fatal, ub |-> r.ub,
         parts |-> [n \in 1..Len(r.parts) |->
                      [lit |-> r.parts[n].lit,
                       text |-> IF r.parts[n].lit
                                  THEN LitText(line, r.nuls, r.parts[n].start)
                                  ELSE << >>,
                       offset |-> r.parts[n].offset, width |-> r.parts[n].width,
                       base |-> r.parts[n].base]]]
  IN  Scanned(GenScan(line, 1, FALSE, << LitPart(1) >>, {}, FALSE))

\* the for loop of construct_gen_output from part n, dest holding text
RECURSIVE ConstructLoop(_, _, _, _, _)
ConstructLoop(parts, n, iter, text, ub) ==
  IF n > Len(parts) THEN [fatal |-> "", text |-> text, ub |-> ub]
  ELSE
    LET p == parts[n]
        ub1 == ub \/ (~p.lit /\ SignedAddOverflows(iter, p.offset))
        room == DOMAIN_STR_LEN - Len(text)
        Put(piece) ==
          IF Len(piece) > room
            THEN [fatal |-> "$GENERATE directive constructed a token that was too long",
                  text |-> text, ub |-> ub1]
          \* snprintf keeps room - 1 characters and the NUL
          ELSE ConstructLoop(parts, n + 1, iter,
                             text \o SubSeq(piece, 1, IF Len(piece) = room
                                                        THEN room - 1
                                                        ELSE Len(piece)),
                             ub1)
    IN  Put(IF p.lit THEN p.text
            ELSE FormatPadded(WrapAdd(iter, p.offset), p.width, p.base))

\* construct_gen_output (dest, parts, ..., num_parts, iter)
construct_gen_output(parts, iter) == ConstructLoop(parts, 1, iter, << >>, FALSE)

(***************************************************************************)
(* handle_entry                                                            *)
(***************************************************************************)

Str(t) == S(t)
Colon == << ColonChar >>
NewLine == << LF >>

\* no $GENERATE loop is running
NoGen ==
  [i |-> 0, stop |-> 0, step |-> 0, lhs |-> << >>, rhs |-> << >>,
   type |-> << >>, iters |-> 0]

\* a line written to the temp file: its text, and what it was written from:
\* the owner and TTL printed, and whether the TTL came from the record's own
\* TTL token (has_ttl is FALSE for SOA, which prints none)
OutLine(text, type, owner, lttl, own_ttl) ==
  [text |-> text, type |-> type, owner |-> owner.text, ttl |-> lttl,
   own_ttl |-> own_ttl, has_ttl |-> type # "SOA"]

\* what a call of handle_entry did.  kind is "ok" (it returned), "fatal" (it
\* called fatal()), "gen" (the $GENERATE loop at line 684 is entered) or
\* "oob" (it read token[next] with next >= num_tokens); lines are the lines
\* written, warn the warnings printed, ub whether a signed overflow happened
Result(kind, msg, cur, ttl, owner, prev, lines, warn) ==
  [kind |-> kind, msg |-> msg, cur_origin |-> cur, ttl |-> ttl, owner |-> owner,
   prev_owner |-> prev, lines |-> lines, warn |-> warn, gen |-> NoGen,
   ub |-> FALSE]

\* lines 719-725: the owner is outside the zone of top_origin
OutOfZone(top, owner) ==
  LET tl == Len(top.text)
      ol == Len(owner.text)
  IN  \/ tl > ol
      \/ ~StrCaseEq(top.text, StrFrom(owner.text, ol - tl + 1))
      \/ ol > tl /\ owner.text[ol - tl] # Dot

\* lines 739-766: the TTL and class tokens.  tk is the token array (tk[k] is
\* the C token[k-1]), ttl the default *ttl.  next is the C index of the type
\* token; fatal is set where fatal ("invalid TTL in RR") is called
TtlAndClass(tk, ttl) ==
  LET local_ttl == ttl
      Parsed(t1, t2, in2, in3) ==
        IF t1.ret = 0
          THEN IF UGt(local_ttl, MAX_TTL)
                 THEN [fatal |-> TRUE, ttl |-> local_ttl, next |-> 1, own |-> TRUE]
                 ELSE [fatal |-> FALSE, ttl |-> t1.val,
                       next |-> IF in3 THEN 3 ELSE 2, own |-> TRUE]
        ELSE IF in2
          THEN IF t2.ret = 0
                 THEN IF UGt(local_ttl, MAX_TTL)
                        THEN [fatal |-> TRUE, ttl |-> local_ttl, next |-> 1,
                              own |-> TRUE]
                        ELSE [fatal |-> FALSE, ttl |-> t2.val, next |-> 3,
                              own |-> TRUE]
                 ELSE [fatal |-> FALSE, ttl |-> local_ttl, next |-> 2,
                       own |-> FALSE]
        ELSE [fatal |-> FALSE, ttl |-> local_ttl, next |-> 1, own |-> FALSE]
      IsIn(t) == StrCaseEq(t, Str(<< "I", "N" >>))
  IN  Parsed(str_to_uint(tk[2], TRUE), str_to_uint(tk[3], TRUE), IsIn(tk[2]),
             IsIn(tk[3]))

\* the TXT loop at line 873 from token k on: the text written, or a failure
RECURSIVE TxtRdata(_, _, _, _)
TxtRdata(tk, k, signed, text) ==
  IF k > Len(tk) THEN [ret |-> 0, text |-> text]
  ELSE LET Sanitized(r) ==
             IF r.ret # 0 THEN [ret |-> 1, text |-> text]
             ELSE TxtRdata(tk, k + 1, signed, text \o Octal3(r.len) \o r.text)
       IN  Sanitized(sanitize_string(tk[k], signed))

\* lines 768-912: the dispatch on the type token token[next] and the line
\* written.  owner is the static owner, lttl is local_ttl
RecordBody(tk, cur, ttl, owner, lttl, own, next, signed) ==
  LET type == tk[next + 1]
      nargs == Len(tk) - next - 1
      arg(k) == tk[next + 1 + k]
      Is(t) == StrCaseEq(type, Str(t))
      fatal(msg) == Result("fatal", msg, cur, ttl, owner, TRUE, << >>, 0)
      emit(text, ty) ==
        Result("ok", "", cur, ttl, owner, TRUE,
               << OutLine(text \o NewLine, ty, owner, lttl, own) >>, 0)
      dom(k) == qualify_domain(arg(k), cur, signed)
      num(k, time) == str_to_uint(arg(k), time)
      u(x) == UDigits(x, 10, FALSE)
      Octal6(x) == Octal3(x \div 256) \o Octal3(x % 256)
      Soa(mname, rname, serial, refresh, retry, expire, minimum) ==
        IF mname.ret # 0 THEN fatal("choked on MNAME in SOA RDATA")
        ELSE IF rname.ret # 0 THEN fatal("choked on RNAME in SOA RDATA")
        ELSE IF serial.ret # 0 THEN fatal("invalid SERIAL in SOA RDATA")
        ELSE IF refresh.ret # 0 THEN fatal("invalid REFRESH in SOA RDATA")
        ELSE IF retry.ret # 0 THEN fatal("invalid RETRY in SOA RDATA")
        ELSE IF expire.ret # 0 THEN fatal("invalid EXPIRE in SOA RDATA")
        ELSE IF minimum.ret # 0 THEN fatal("invalid MINIMUM in SOA RDATA")
        ELSE emit(Str(<< "Z" >>) \o owner.text \o Colon \o mname.text \o Colon
                  \o rname.text \o Colon \o u(serial.val) \o Colon
                  \o u(refresh.val) \o Colon \o u(retry.val) \o Colon
                  \o u(expire.val) \o Colon \o u(minimum.val), "SOA")
      Simple(d, tag, sep, ty, msg) ==
        IF d.ret # 0 THEN fatal(msg)
        ELSE emit(tag \o owner.text \o sep \o d.text \o Colon \o FormatD(lttl),
                  ty)
      Mx(pri, d) ==
        IF pri.ret # 0 \/ UGt(pri.val, 65535)
          THEN fatal("invalid priority in MX RDATA")
        ELSE IF d.ret # 0 THEN fatal("choked on domain name in MX RDATA")
        ELSE emit(Str(<< "@" >>) \o owner.text \o Str(<< ":", ":" >>) \o d.text
                  \o Colon \o FormatD(pri.val) \o Colon \o FormatD(lttl), "MX")
      A(ips, ip) ==
        IF ip.ret # 0
          THEN [fatal("invalid IP address in A RDATA")
                  EXCEPT !.ub = Cardinality(ips) > 1]
          ELSE [emit(Str(<< "+" >>) \o owner.text \o Colon \o ip.text \o Colon
                     \o FormatD(lttl), "A")
                  EXCEPT !.ub = Cardinality(ips) > 1]
      AOutcomes(ips) == A(ips, CHOOSE r \in ips : r.ret # 2)
      Txt(r) ==
        IF r.ret # 0 THEN fatal("choked while sanitizing TXT RDATA")
        ELSE emit(Colon \o owner.text \o Str(<< ":", "1", "6", ":" >>) \o r.text
                  \o Colon \o FormatD(lttl), "TXT")
      Srv(pri, weight, port, d) ==
        IF pri.ret # 0 \/ UGt(pri.val, 65535)
          THEN fatal("invalid priority in SRV RDATA")
        ELSE IF weight.ret # 0 \/ UGt(weight.val, 65535)
          THEN fatal("invalid weight in SRV RDATA")
        ELSE IF port.ret # 0 \/ UGt(port.val, 65535)
          THEN fatal("invalid port in SRV RDATA")
        ELSE IF d.ret # 0 THEN fatal("choked on domain name in SRV RDATA")
        ELSE emit(Colon \o owner.text \o Str(<< ":", "3", "3", ":" >>)
                  \o Octal6(pri.val) \o Octal6(weight.val) \o Octal6(port.val)
                  \o Octal3(d.len) \o d.text \o Colon \o FormatD(lttl), "SRV")
  IN
  IF Is(<< "S", "O", "A" >>)
    THEN IF nargs = 2 THEN fatal("wrong number of tokens in SOA RDATA (paren)")
         ELSE IF nargs # 7 THEN fatal("wrong number of tokens in SOA RDATA")
         ELSE Soa(dom(1), dom(2), num(3, FALSE), num(4, TRUE), num(5, TRUE),
                  num(6, TRUE), num(7, TRUE))
  ELSE IF Is(<< "N", "S" >>)
    THEN IF nargs # 1 THEN fatal("wrong number of tokens in NS RDATA")
         ELSE Simple(dom(1), Str(<< "&" >>), Str(<< ":", ":" >>), "NS",
                     "choked on domain name in NS RDATA")
  ELSE IF Is(<< "M", "X" >>)
    THEN IF nargs # 2 THEN fatal("wrong number of tokens in MX RDATA")
         ELSE Mx(num(1, FALSE), dom(2))
  ELSE IF Is(<< "A" >>)
    THEN IF nargs # 1 THEN fatal("wrong number of tokens in A RDATA")
         ELSE AOutcomes(sanitize_ip(arg(1)))
  ELSE IF Is(<< "C", "N", "A", "M", "E" >>)
    THEN IF nargs # 1 THEN fatal("wrong number of tokens in CNAME RDATA")
         ELSE Simple(dom(1), Str(<< "C" >>), Colon, "CNAME",
                     "choked on domain name in CNAME RDATA")
  ELSE IF Is(<< "P", "T", "R" >>)
    THEN IF nargs # 1 THEN fatal("wrong number of tokens in PTR RDATA")
         ELSE Simple(dom(1), Str(<< "^" >>), Colon, "PTR",
                     "choked on domain name in PTR RDATA")
  ELSE IF Is(<< "T", "X", "T" >>)
    THEN IF nargs < 1 THEN fatal("too few tokens in TXT RDATA")
         ELSE Txt(TxtRdata(tk, next + 2, signed, << >>))
  ELSE IF Is(<< "S", "R", "V" >>)
    THEN IF nargs # 4 THEN fatal("wrong number of tokens in SRV RDATA")
         ELSE Srv(num(1, FALSE), num(2, FALSE), num(3, FALSE), dom(4))
  ELSE fatal("unknown RR type")

\* the else branch at line 704: a resource record.  owner and prev_owner are
\* the function's statics
HandleRecord(tk, cur, top, ttl, owner, prev, signed) ==
  LET blank == tk[1] = << Space >>
      fatal(msg, o, p) == Result("fatal", msg, cur, ttl, o, p, << >>, 0)
      Body(owner1, tc) ==
        IF tc.fatal THEN fatal("invalid TTL in RR", owner1, TRUE)
        ELSE IF tc.next >= Len(tk)
          THEN Result("oob", "", cur, ttl, owner1, TRUE, << >>, 0)
        ELSE RecordBody(tk, cur, ttl, owner1, tc.ttl, tc.own, tc.next, signed)
      Named(q, owner1) ==
        IF q.ret # 0 THEN fatal("choked on owner name in RR", owner, prev)
        ELSE IF OutOfZone(top, owner1)
          \* qualify_domain has stored the name in the static owner; return 1
          THEN Result("ok", "ignoring out-of-zone data", cur, ttl, owner1, prev,
                      << >>, 1)
        ELSE Body(owner1, TtlAndClass(tk, ttl))
      Qualified(q) == Named(q, MkString(q.text, q.len))
  IN  IF Len(tk) < 3 THEN fatal("RR does not have enough tokens", owner, prev)
      ELSE IF ~blank THEN Qualified(qualify_domain(tk[1], cur, signed))
      ELSE IF ~prev THEN fatal("RR tried to inherit owner", owner, prev)
      ELSE Body(owner, TtlAndClass(tk, ttl))

\* lines 641-673: start, stop and step of the range token[1] of $GENERATE
GenRange(r) ==
  LET res(msg, start, stop, step, ub) ==
        [fatal |-> msg, start |-> start, stop |-> stop, step |-> step, ub |-> ub]
      Step(a, b, c) ==
        IF ~c.found \/ At(r, c.end) # 0 \/ c.val = 0
          THEN res("$GENERATE directive has invalid range (unable to parse step)",
                   a.val, b.val, 0, a.ub \/ b.ub \/ c.ub)
          ELSE res("", a.val, b.val, c.val, a.ub \/ b.ub \/ c.ub)
      Stop(a, b) ==
        IF ~b.found \/ (At(r, b.end) # 0 /\ At(r, b.end) # Slash)
          THEN res("$GENERATE directive has invalid range (unable to parse stop)",
                   a.val, b.val, 0, a.ub \/ b.ub)
        ELSE IF At(r, b.end) = Slash
          THEN Step(a, b, DigitRun(r, b.end + 1, 0, FALSE, FALSE))
        ELSE res("", a.val, b.val, 1, a.ub \/ b.ub)
      Start(a) ==
        IF ~a.found \/ At(r, a.end) # Minus
          THEN res("$GENERATE directive has invalid range (unable to parse start)",
                   a.val, 0, 0, a.ub)
          ELSE Stop(a, DigitRun(r, a.end + 1, 0, FALSE, FALSE))
  IN  Start(DigitRun(r, 1, 0, FALSE, FALSE))

\* lines 619-681: a $GENERATE directive up to the loop at line 684
HandleGenerate(tk, cur, ttl, owner, prev) ==
  LET fatal(msg) == Result("fatal", msg, cur, ttl, owner, prev, << >>, 0)
      known == \E t \in {Str(<< "P", "T", "R" >>), Str(<< "C", "N", "A", "M", "E" >>),
                         Str(<< "A" >>), Str(<< "N", "S" >>)} : StrCaseEq(tk[4], t)
      Parsed(range, lhs, rhs) ==
        IF range.fatal # "" THEN [fatal(range.fatal) EXCEPT !.ub = range.ub]
        ELSE IF lhs.fatal # ""
          THEN [fatal(lhs.fatal) EXCEPT !.ub = range.ub \/ lhs.ub]
        ELSE IF rhs.fatal # ""
          THEN [fatal(rhs.fatal) EXCEPT !.ub = range.ub \/ lhs.ub \/ rhs.ub]
        ELSE [Result("gen", "", cur, ttl, owner, prev, << >>, 0)
                EXCEPT !.ub = range.ub \/ lhs.ub \/ rhs.ub,
                       !.gen = [i |-> range.start, stop |-> range.stop,
                                step |-> range.step, lhs |-> lhs.parts,
                                rhs |-> rhs.parts, type |-> tk[4], iters |-> 0]]
  IN  IF Len(tk) # 5
        THEN fatal("$GENERATE directive has wrong number of arguments")
      ELSE IF ~known THEN fatal("$GENERATE directive has unknown RR type")
      ELSE Parsed(GenRange(tk[2]), parse_gen_string(tk[3]),
                  parse_gen_string(tk[5]))

\* handle_entry (num_tokens, token, cur_origin, top_origin, ttl), with the
\* statics owner and prev_owner, up to the return or the $GENERATE loop
handle_entry(tk, cur, top, ttl, owner, prev, signed) ==
  LET fatal(msg) == Result("fatal", msg, cur, ttl, owner, prev, << >>, 0)
      Is(t) == StrCaseEq(tk[1], Str(t))
      Origin(q) ==
        IF q.ret # 0
          THEN fatal("choked on domain name in $ORIGIN statement")
          ELSE Result("ok", "", MkString(q.text, q.len), ttl, owner, prev,
                      << >>, 0)
      \* *ttl is an int here: the comparison at line 616 is signed
      Ttl(v) ==
        IF v.ret # 0 \/ v.val > MAX_TTL THEN fatal("invalid $TTL value")
        ELSE Result("ok", "", cur, v.val, owner, prev, << >>, 0)
  IN  IF Len(tk) = 0 THEN Result("ok", "", cur, ttl, owner, prev, << >>, 0)
      ELSE IF Is(<< "$", "O", "R", "I", "G", "I", "N" >>)
        THEN IF Len(tk) # 2
               THEN fatal("$ORIGIN directive has wrong number of arguments")
             ELSE Origin(qualify_domain(tk[2], cur, signed))
      ELSE IF Is(<< "$", "T", "T", "L" >>)
        THEN IF Len(tk) # 2
               THEN fatal("$TTL directive has wrong number of arguments")
             ELSE Ttl(str_to_uint(tk[2], TRUE))
      ELSE IF Is(<< "$", "G", "E", "N", "E", "R", "A", "T", "E" >>)
        THEN HandleGenerate(tk, cur, ttl, owner, prev)
      ELSE IF Is(<< "$", "I", "N", "C", "L", "U", "D", "E" >>)
        THEN fatal("sorry, $INCLUDE directive is not implemented")
      ELSE IF At(tk[1], 1) = Dollar THEN fatal("unknown $ directive")
      ELSE HandleRecord(tk, cur, top, ttl, owner, prev, signed)

(***************************************************************************)
(* The run: main, as a state machine.                                      *)
(***************************************************************************)

VARIABLES
  pc,           \* where the process is: "main", "tokenize" (about to call
                \* fgets), "handle" (tokenize returned an entry), "gen" (in
                \* the $GENERATE loop), or ended: "exit0", "exit1", "crashed"
  argv1,        \* argv[1], the origin argument
  char_signed,  \* whether the build's char is signed
  origin,       \* main's origin, the top_origin of handle_entry
  cur_origin,   \* main's cur_origin
  ttl,          \* main's ttl
  owner,        \* handle_entry's static owner
  prev_owner,   \* handle_entry's static prev_owner
  tok,          \* the locals of tokenize and the line buffer
  gen,          \* the locals of the $GENERATE loop
  out,          \* the lines written to the temp file, in order
  warnings,     \* how many warnings were printed
  tmp_file,     \* the temp-file path: "absent", "foreign" (a file that was
                \* there before the run) or "ours" (the file the run created)
  dest_file,    \* the destination path: "old" (untouched) or "renamed"
  nread,        \* how many lines fgets has returned
  entry_no,     \* how many entries tokenize has returned
  fn_pc,        \* the position of a single call of a function under study
  fn_in,        \* its argument
  fn_out        \* its result

run_vars ==
  << pc, argv1, origin, cur_origin, ttl, owner, prev_owner, tok, gen, out,
     warnings, tmp_file, dest_file, nread, entry_no >>
fn_vars == << fn_pc, fn_in, fn_out >>
vars == << run_vars, char_signed, fn_vars >>

\* how many lines of input a run reads at most
MaxLines == 3
\* how many iterations of one $GENERATE loop are followed
MaxGenIters == 3

EmptyString == MkString(<< >>, 0)

\* the values argv[1] is drawn from
OriginArgs == { Str(<< "e", "1" >>), Str(<< "." >>) }

IP4 == << "1", ".", "2", ".", "3", ".", "4" >>

\* the physical lines stdin is drawn from
InputLines ==
  { Str(<< "a", " ", "A", " " >> \o IP4 \o << "\n" >>),
    Str(<< "b", ".", "x", ".", " ", "A", " " >> \o IP4 \o << "\n" >>),
    Str(<< " ", "N", "S", " ", "n", "\n" >>),
    Str(<< "a", " ", "2", "1", "4", "7", "4", "8", "3", "6", "4", "7", " ",
           "I", "N", " ", "A", " " >> \o IP4 \o << "\n" >>),
    Str(<< "a", " ", "i", "n", " ", "4", "2", "9", "4", "9", "6", "7", "2", "9",
           "5", " ", "A", " " >> \o IP4 \o << "\n" >>),
    Str(<< "$", "T", "T", "L", " ", "2", "1", "4", "7", "4", "8", "3", "6", "4",
           "8", "\n" >>),
    Str(<< "$", "T", "T", "L", " ", "2", "1", "4", "7", "4", "8", "3", "6", "4",
           "7", "\n" >>),
    Str(<< "$", "T", "T", "L", " ", "1", "h", "\n" >>),
    Str(<< "$", "O", "R", "I", "G", "I", "N", " ", "s", "\n" >>),
    Str(<< "$", "G", "E", "N", "E", "R", "A", "T", "E", " ", "0", "-", "1", " ",
           "a", ".", "e", "$", ".", " ", "A", " ", "1", ".", "2", ".", "3", ".",
           "$", "\n" >>),
    Str(<< "$", "G", "E", "N", "E", "R", "A", "T", "E", " ", "2", "1", "4", "7",
           "4", "8", "3", "6", "4", "7", "-", "2", "1", "4", "7", "4", "8", "3",
           "6", "4", "7", " ", "h", "$", " ", "A", " " >> \o IP4 \o << "\n" >>),
    Str(<< "c", " ", "M", "X", " ", "(", " ", "5", " ", ";", "p", "\n" >>),
    Str(<< " ", "m", " ", ")", "\n" >>),
    Str(<< "a", " ", "T", "X", "T", " ", "\"", "x", " ", ":", "\"", "\n" >>) }

\* the filesystem calls that can fail: in fatal(), fclose and unlink; at the
\* end of main, fclose, rename and the unlink after a failed rename
Envs == { "ok", "fclose_fails", "rename_fails", "unlink_fails" }

\* fatal (message, line_number) with file set: the temp file is closed and
\* unlinked, unless fclose fails (unlink is then not called) or unlink fails
FatalExit(env) ==
  /\ pc' = "exit1"
  /\ tmp_file' = IF env \in {"fclose_fails", "unlink_fails"} THEN tmp_file
                 ELSE "absent"
  /\ UNCHANGED << argv1, origin, cur_origin, ttl, owner, prev_owner, tok, gen,
                  out, warnings, dest_file, nread, entry_no >>

\* the process ends on undefined behaviour: nothing is closed or unlinked
Crash ==
  /\ pc' = "crashed"
  /\ UNCHANGED << argv1, origin, cur_origin, ttl, owner, prev_owner, tok, gen,
                  out, warnings, tmp_file, dest_file, nread, entry_no >>

\* the entry tokenize returned: num_tokens tokens
Entry == SubSeq(TokenTexts(tok), 1, TokReturn(tok))

\* the lines a call wrote, with the entry and iteration that wrote them, and
\* whether the entry began with the blank-owner token
Stamp(lines, in_gen, iter) ==
  [k \in 1..Len(lines) |->
     [text |-> lines[k].text, type |-> lines[k].type, owner |-> lines[k].owner,
      ttl |-> lines[k].ttl, own_ttl |-> lines[k].own_ttl,
      has_ttl |-> lines[k].has_ttl, entry |-> entry_no, in_gen |-> in_gen,
      iter |-> iter, blank |-> ~in_gen /\ Entry[1] = Str(<< " " >>)]]

\* the state after a call that stored a record's own TTL through ttl instead
\* of in local_ttl
ReturnedOwnTtlStored(r, in_gen, iter) ==
  /\ cur_origin' = r.cur_origin
  /\ ttl' = IF r.lines # << >> THEN r.lines[1].ttl ELSE r.ttl
  /\ owner' = r.owner
  /\ prev_owner' = r.prev_owner
  /\ out' = out \o Stamp(r.lines, in_gen, iter)
  /\ warnings' = warnings + r.warn

\* the state after a call of handle_entry that returned
Returned(r, in_gen, iter) ==
  /\ cur_origin' = r.cur_origin
  /\ ttl' = r.ttl
  /\ owner' = r.owner
  /\ prev_owner' = r.prev_owner
  /\ out' = out \o Stamp(r.lines, in_gen, iter)
  /\ warnings' = warnings + r.warn

\* main up to the loop at line 954: the origin is qualified, the temp file
\* created with O_EXCL and opened as a stream
Startup ==
  /\ pc = "main"
  /\ LET q == qualify_domain(argv1, MkString(Str(<< "." >>), 1), char_signed)
     IN  \E fdopen_ok \in BOOLEAN :
           IF q.ret # 0
             \* fatal() with file == NULL: exit (1)
             THEN /\ pc' = "exit1"
                  /\ UNCHANGED << origin, cur_origin, tmp_file >>
           ELSE IF tmp_file # "absent"
             \* open fails with EEXIST: exit (1)
             THEN /\ pc' = "exit1"
                  /\ origin' = MkString(q.text, q.len)
                  /\ cur_origin' = origin'
                  /\ UNCHANGED tmp_file
           ELSE /\ pc' = IF fdopen_ok THEN "tokenize" ELSE "exit1"
                /\ origin' = MkString(q.text, q.len)
                /\ cur_origin' = origin'
                /\ tmp_file' = "ours"
  /\ UNCHANGED << argv1, ttl, owner, prev_owner, tok, gen, out, warnings,
                  dest_file, nread, entry_no >>

\* one pass of the do loop of tokenize: fgets returns a line
ReadLine ==
  /\ pc = "tokenize"
  /\ nread < MaxLines
  /\ \E ln \in InputLines, env \in Envs :
       LET st == TokPhysicalLine(tok, ln)
       IN  /\ Len(tok.line) + Len(ln) <= LINE_LEN
           /\ IF st.fatal # ""
                THEN /\ env \in {"ok", "fclose_fails", "unlink_fails"}
                     /\ FatalExit(env)
                ELSE /\ env = "ok"
                     /\ tok' = st
                     /\ nread' = nread + 1
                     /\ warnings' = warnings + (IF st.in_quote THEN 1 ELSE 0)
                                    + (IF st.in_doublequote THEN 1 ELSE 0)
                     /\ pc' = IF st.paren_level # 0 THEN "tokenize" ELSE "handle"
                     /\ entry_no' = IF st.paren_level # 0 THEN entry_no
                                    ELSE entry_no + 1
                     /\ UNCHANGED << argv1, origin, cur_origin, ttl, owner,
                                     prev_owner, gen, out, tmp_file, dest_file >>

\* fgets returns NULL: tokenize returns -1 at line 372, the loop of main ends,
\* and main closes the temp file and renames it
ReadEOF ==
  /\ pc = "tokenize"
  /\ \E env \in Envs :
       /\ pc' = IF env = "ok" THEN "exit0" ELSE "exit1"
       /\ tmp_file' = IF env \in {"fclose_fails", "unlink_fails"} THEN tmp_file
                      ELSE "absent"
       /\ dest_file' = IF env = "ok" THEN "renamed" ELSE dest_file
  /\ UNCHANGED << argv1, origin, cur_origin, ttl, owner, prev_owner, tok, gen,
                  out, warnings, nread, entry_no >>

\* what the build can make of a call whose result is r: "run" (carry on), or
\* "trap" where the call ran into undefined behaviour
Hows(r) == IF r.ub \/ r.kind = "oob" THEN {"run", "trap"} ELSE {"run"}

\* main calls handle_entry on the entry tokenize returned
HandleEntry ==
  /\ pc = "handle"
  /\ LET r == handle_entry(Entry, cur_origin, origin, ttl, owner, prev_owner,
                           char_signed)
     IN  \E how \in Hows(r), env \in Envs :
           IF how = "trap" THEN env = "ok" /\ Crash
           ELSE IF r.kind \in {"fatal", "oob"}
             \* token[next] past the entry is a stale or unset pointer: the
             \* type read there matches none
             THEN env \in {"ok", "fclose_fails", "unlink_fails"} /\ FatalExit(env)
           ELSE /\ env = "ok"
                /\ Returned(r, FALSE, 0)
                /\ gen' = r.gen
                /\ pc' = IF r.kind = "gen" THEN "gen" ELSE "tokenize"
                /\ tok' = IF r.kind = "gen" THEN tok ELSE TokInit
                /\ UNCHANGED << argv1, origin, tmp_file, dest_file, nread,
                                entry_no >>

\* the record the $GENERATE loop builds for the iterator gen.i
GenTokens == 
  << construct_gen_output(gen.lhs, gen.i).text, gen.type,
     construct_gen_output(gen.rhs, gen.i).text >>

\* i += step, wrapped
GenAdvance(g) ==
  [g EXCEPT !.i = WrapAdd(g.i, g.step), !.iters = @ + 1]

\* one pass of the loop at line 684
GenIterate ==
  /\ pc = "gen"
  /\ gen.i <= gen.stop
  /\ gen.iters < MaxGenIters
  /\ LET lhs == construct_gen_output(gen.lhs, gen.i)
         rhs == construct_gen_output(gen.rhs, gen.i)
         r == handle_entry(GenTokens, cur_origin, origin, ttl, owner,
                           prev_owner, char_signed)
         ub == \/ lhs.ub \/ rhs.ub \/ r.ub \/ r.kind = "oob"
               \/ SignedAddOverflows(gen.i, gen.step)
     IN  \E how \in (IF ub THEN {"run", "trap"} ELSE {"run"}), env \in Envs :
           IF how = "trap" THEN env = "ok" /\ Crash
           ELSE IF lhs.fatal # "" \/ rhs.fatal # "" \/ r.kind # "ok"
             THEN env \in {"ok", "fclose_fails", "unlink_fails"} /\ FatalExit(env)
           ELSE /\ env = "ok"
                /\ Returned(r, TRUE, gen.i)
                /\ gen' = GenAdvance(gen)
                /\ UNCHANGED << pc, argv1, origin, tok, tmp_file, dest_file,
                                nread, entry_no >>

\* the loop at line 684 ends: handle_entry returns to main
GenExit ==
  /\ pc = "gen"
  /\ ~(gen.i <= gen.stop)
  /\ pc' = "tokenize"
  /\ gen' = NoGen
  /\ tok' = TokInit
  /\ UNCHANGED << argv1, origin, cur_origin, ttl, owner, prev_owner, out,
                  warnings, tmp_file, dest_file, nread, entry_no >>

NoCall == << >>

Init ==
  /\ pc = "main"
  /\ argv1 \in OriginArgs
  /\ char_signed = TRUE
  /\ origin = EmptyString
  /\ cur_origin = EmptyString
  /\ ttl = DEFAULT_TTL
  /\ owner = EmptyString
  /\ prev_owner = FALSE
  /\ tok = TokInit
  /\ gen = NoGen
  /\ out = << >>
  /\ warnings = 0
  /\ tmp_file \in {"absent", "foreign"}
  /\ dest_file = "old"
  /\ nread = 0
  /\ entry_no = 0
  /\ fn_pc = "off"
  /\ fn_in = NoCall
  /\ fn_out = NoCall

Next ==
  \/ Startup /\ UNCHANGED << char_signed, fn_vars >>
  \/ ReadLine /\ UNCHANGED << char_signed, fn_vars >>
  \/ ReadEOF /\ UNCHANGED << char_signed, fn_vars >>
  \/ HandleEntry /\ UNCHANGED << char_signed, fn_vars >>
  \/ GenIterate /\ UNCHANGED << char_signed, fn_vars >>
  \/ GenExit /\ UNCHANGED << char_signed, fn_vars >>

Spec == Init /\ [][Next]_vars

(***************************************************************************)
(* Single calls of sanitize_string, sanitize_ip and the $GENERATE template *)
(* functions, on arguments drawn from bounded sets.  No run of main is     *)
(* going on in these specifications.                                       *)
(***************************************************************************)

\* no process: the variables of a run keep their values of before main
NoRun ==
  /\ pc = "off"
  /\ argv1 = << >>
  /\ origin = EmptyString
  /\ cur_origin = EmptyString
  /\ ttl = DEFAULT_TTL
  /\ owner = EmptyString
  /\ prev_owner = FALSE
  /\ tok = TokInit
  /\ gen = NoGen
  /\ out = << >>
  /\ warnings = 0
  /\ tmp_file = "absent"
  /\ dest_file = "old"
  /\ nread = 0
  /\ entry_no = 0

\* the strings of at most n bytes of A
StringsUpTo(A, n) == UNION { [1..m -> A] : m \in 0..n }

\* the longest source string given to sanitize_string
MaxSanLen == 4

\* the bytes of those strings: an ordinary character, the characters
\* sanitize_string treats specially, a digit, a control byte and a byte
\* above 127
SanBytes ==
  { Ord("a"), Dot, ColonChar, Backslash, Zero, 1, 193 }

InitSan ==
  /\ NoRun
  /\ char_signed \in BOOLEAN
  /\ fn_pc = "call"
  /\ fn_in \in StringsUpTo(SanBytes, MaxSanLen)
  /\ fn_out = NoCall

\* sanitize_string (&dest, fn_in)
SanCall ==
  /\ fn_pc = "call"
  /\ fn_out' = sanitize_string(fn_in, char_signed)
  /\ fn_pc' = IF fn_out'.ret = 0 THEN "returned" ELSE "failed"
  /\ UNCHANGED fn_in

\* sanitize_string (&dest2, dest.text): the text it wrote is sanitized again
SanAgain ==
  /\ fn_pc = "returned"
  /\ fn_in' = fn_out.text
  /\ fn_out' = sanitize_string(fn_out.text, char_signed)
  /\ fn_pc' = "again"

NextSan ==
  \/ SanCall /\ UNCHANGED << run_vars, char_signed >>
  \/ SanAgain /\ UNCHANGED << run_vars, char_signed >>

SpecSan == InitSan /\ [][NextSan]_vars

\* the dotted string of four octets
Dotted(a, b, c, d) == a \o << "." >> \o b \o << "." >> \o c \o << "." >> \o d

\* the source strings given to sanitize_ip: octets in and out of range, with
\* leading zeros, empty, not decimal, and of ten digits; and strings with
\* too few and too many dots
IpOctets ==
  { << "0" >>, << "1" >>, << "2", "5", "5" >>, << "2", "5", "6" >>,
    << "0", "0", "7" >>, << >>, << "1", "a" >>,
    << "4", "2", "9", "4", "9", "6", "7", "2", "9", "6" >>,
    << "2", "1", "4", "7", "4", "8", "3", "6", "4", "8" >> }
IpInputs ==
  { Str(Dotted(a, b, c, d)) :
      a \in IpOctets, b \in { << "0" >>, << "2", "5", "6" >>, << >> },
      c \in { << "3" >>, << "0", "0" >> }, d \in { << "4" >>, << "4", "." >> } }
  \cup { Str(<< "1", ".", "2", ".", "3" >>), Str(<< "1", "2", "3" >>) }

InitIp ==
  /\ NoRun
  /\ char_signed = TRUE
  /\ fn_pc = "call"
  /\ fn_in \in IpInputs
  /\ fn_out = NoCall

\* sanitize_ip (dest, fn_in)
IpCall ==
  /\ fn_pc = "call"
  /\ \E o \in sanitize_ip(fn_in) :
       /\ fn_out' = o
       /\ fn_pc' = IF o.ret = 0 THEN "returned"
                   ELSE IF o.ret = 1 THEN "failed" ELSE "crashed"
  /\ UNCHANGED fn_in

NextIp == IpCall /\ UNCHANGED << run_vars, char_signed >>

SpecIp == InitIp /\ [][NextIp]_vars

\* the longest $GENERATE template parsed
MaxTemplateLen == 4

\* the characters of the templates and the iterator values they are
\* materialized for
GenChars == { Ord("a"), Dollar, LBrace, RBrace, Ord("1") }
GenIters == { 7, 12 }

InitGen ==
  /\ NoRun
  /\ char_signed = TRUE
  /\ fn_pc = "call"
  /\ fn_in \in [template : StringsUpTo(GenChars, MaxTemplateLen), iter : GenIters]
  /\ fn_out = NoCall

\* parse_gen_string (line, parts, offsets, widths, bases, &num_parts)
GenParse ==
  /\ fn_pc = "call"
  /\ LET r == parse_gen_string(fn_in.template)
     IN  \E how \in (IF r.ub THEN {"run", "trap"} ELSE {"run"}) :
           /\ fn_pc' = IF how = "trap" THEN "crashed"
                       ELSE IF r.fatal # "" THEN "fatal" ELSE "parsed"
           /\ fn_out' = [parts |-> r.parts, text |-> << >>]
  /\ UNCHANGED fn_in

\* construct_gen_output (dest, parts, offsets, widths, bases, num_parts, iter)
GenConstruct ==
  /\ fn_pc = "parsed"
  /\ LET c == construct_gen_output(fn_out.parts, fn_in.iter)
     IN  \E how \in (IF c.ub THEN {"run", "trap"} ELSE {"run"}) :
           /\ fn_pc' = IF how = "trap" THEN "crashed"
                       ELSE IF c.fatal # "" THEN "fatal" ELSE "built"
           /\ fn_out' = [fn_out EXCEPT !.text = c.text]
  /\ UNCHANGED fn_in

NextGen ==
  \/ GenParse /\ UNCHANGED << run_vars, char_signed >>
  \/ GenConstruct /\ UNCHANGED << run_vars, char_signed >>

SpecGen == InitGen /\ [][NextGen]_vars

\* the physical lines given to a single call of tokenize: n + 1 one-letter
\* tokens, and an owner and TXT followed by n double-quoted empty strings,
\* for n tokens short of, at and past the size of main's token array
ManyTokens ==
  { [k \in 1..(2 * n + 1) |-> IF k % 2 = 1 THEN Ord("a") ELSE Space]
      \o NewLine : n \in (MAX_TOKENS - 1)..MAX_TOKENS }
ManyQuoted ==
  { Str(<< "a", " ", "T", "X", "T", " " >>) \o [k \in 1..(2 * n) |-> DQuote]
      \o NewLine : n \in (MAX_TOKENS - 3)..(MAX_TOKENS - 1) }

InitTok ==
  /\ NoRun
  /\ char_signed = TRUE
  /\ fn_pc = "scan"
  /\ fn_in \in ManyTokens \cup ManyQuoted
  /\ fn_out = TokInit

\* one pass of the for loop at line 376 of tokenize, on the next character
\* of the line fgets stored
TokScan ==
  /\ fn_pc = "scan"
  /\ Len(fn_out.line) < Len(fn_in)
  /\ fn_out' = TokChar(fn_out, fn_in[Len(fn_out.line) + 1])
  /\ fn_pc' = IF fn_out'.fatal # "" THEN "fatal"
              ELSE IF fn_out'.stop THEN "returned" ELSE "scan"
  /\ UNCHANGED fn_in

\* the for loop ends at the NUL after the line, and tokenize returns
TokEnd ==
  /\ fn_pc = "scan"
  /\ Len(fn_out.line) = Len(fn_in)
  /\ fn_pc' = "returned"
  /\ UNCHANGED << fn_in, fn_out >>

NextTok ==
  \/ TokScan /\ UNCHANGED << run_vars, char_signed >>
  \/ TokEnd /\ UNCHANGED << run_vars, char_signed >>

SpecTok == InitTok /\ [][NextTok]_vars

\* the most tokens of an entry given to a single call of handle_entry
MaxEntryTokens == 4

\* the tokens of those entries: an owner, the blank-owner token, a TTL, the
\* class, two types and an address
EntryTokens ==
  { Str(<< "a" >>), Str(<< " " >>), Str(<< "5" >>), Str(<< "I", "N" >>),
    Str(<< "A" >>), Str(<< "N", "S" >>), Str(IP4) }

\* the origin of those calls, as main's cur_origin and origin
EntryOrigin == MkString(Str(<< "e", "1", "." >>), 3)

InitEntry ==
  /\ NoRun
  /\ char_signed = TRUE
  /\ fn_pc = "call"
  /\ fn_in \in [tokens : UNION { [1..n -> EntryTokens] : n \in 3..MaxEntryTokens },
                prev_owner : BOOLEAN]
  /\ fn_out = NoCall

\* handle_entry (num_tokens, token, &cur_origin, &origin, &ttl) on an entry
\* of num_tokens tokens, with an owner established before or not
EntryCall ==
  /\ fn_pc = "call"
  /\ LET Called(r) ==
           \E how \in Hows(r) :
             /\ fn_pc' = IF how = "trap" THEN "crashed"
                         ELSE IF r.kind \in {"fatal", "oob"} THEN "fatal"
                         ELSE "returned"
             /\ fn_out' = r
     IN  Called(handle_entry(fn_in.tokens, EntryOrigin, EntryOrigin,
                             DEFAULT_TTL,
                             IF fn_in.prev_owner THEN EntryOrigin
                             ELSE EmptyString,
                             fn_in.prev_owner, char_signed))
  /\ UNCHANGED fn_in

NextEntry == EntryCall /\ UNCHANGED << run_vars, char_signed >>

SpecEntry == InitEntry /\ [][NextEntry]_vars

(***************************************************************************)
(* The claims.                                                             *)
(***************************************************************************)

\* C1: every run that ends with exit status 1 leaves no file of its own at
\* the temp-file path and leaves the destination path unchanged
NoTempFileAfterFatal ==
  pc = "exit1" => tmp_file # "ours" /\ dest_file = "old"

\* C2: the lines are written in the order of the entries they come from, and
\* the lines of one $GENERATE directive in ascending order of the iterator
OutputInOrder ==
  \A j, k \in 1..Len(out) :
    j < k => /\ out[j].entry <= out[k].entry
             /\ (out[j].entry = out[k].entry /\ out[j].in_gen /\ out[k].in_gen
                   => out[j].iter < out[k].iter)

\* name is the zone top or a name under it
InZone(top, name) ==
  \/ top = << Dot >>
  \/ StrCaseEq(top, name)
  \/ /\ Len(name) > Len(top)
     /\ StrCaseEq(top, StrFrom(name, Len(name) - Len(top) + 1))
     /\ name[Len(name) - Len(top)] = Dot

\* C3: a record whose owner is not within the top-level origin writes no
\* line: every line written has an owner within the top-level origin
NoOutOfZoneLine ==
  \A k \in 1..Len(out) : InZone(origin.text, out[k].owner)

\* C4: a record that starts with the blank-owner token is written with the
\* owner of the most recent record that passed the zone-membership check,
\* which is the owner of the line written before it
BlankOwnerInherits ==
  \A k \in 1..Len(out) :
    out[k].blank => k > 1 /\ out[k].owner = out[k-1].owner

\* C5: no line written carries a TTL above 2147483646 that was parsed from
\* the record's own TTL token
RecordTtlBounded ==
  \A k \in 1..Len(out) :
    out[k].has_ttl /\ out[k].own_ttl => ~UGt(out[k].ttl, MAX_TTL)

\* C6: the default TTL is 86400 or a value of a $TTL directive, which, as an
\* unsigned 32-bit value, is never above 2147483646
DefaultTtlBounded == ~UGt(ttl, MAX_TTL)

\* text holds an escape \NNN other than \000 .. \007
HasValueEscape(text) ==
  \E k \in 1..Len(text) :
    /\ text[k] = Backslash
    /\ ~(/\ At(text, k + 1) = Zero
         /\ At(text, k + 2) = Zero
         /\ At(text, k + 3) \in Zero..(Zero + 7))

\* C7, as the specification states it: sanitizing the text sanitize_string
\* wrote succeeds and returns the same text
SanitizeIdempotent ==
  fn_pc = "again" => fn_out.ret = 0 /\ fn_out.text = fn_in

\* C7, amended: sanitizing the text sanitize_string wrote succeeds and
\* returns the same text exactly when that text holds no escape \NNN other
\* than \000 .. \007 (an escape is written in octal and read in decimal)
SanitizeIdempotentWithoutEscapes ==
  fn_pc = "again" =>
    ((fn_out.ret = 0 /\ fn_out.text = fn_in) <=> ~HasValueEscape(fn_in))

\* a text with an escape was sanitized again, and came out the same
SanitizedEscapeAgain ==
  /\ fn_pc = "again"
  /\ \E k \in 1..Len(fn_in) : fn_in[k] = Backslash
  /\ fn_out.ret = 0
  /\ fn_out.text = fn_in

\* r is a run of decimal digits whose value is in 0..255
OctetInRange(r) ==
  /\ Len(r) > 0
  /\ \A k \in 1..Len(r) : isdigit(r[k])
  /\ LET lead == Cardinality({ k \in 1..Len(r) :
                                 \A j \in 1..k : r[j] = Zero })
         sig == StrFrom(r, lead + 1)
     IN  \/ Len(sig) <= 2
         \/ /\ Len(sig) = 3
            /\ (sig[1] - Zero) * 100 + (sig[2] - Zero) * 10 + (sig[3] - Zero)
                 <= 255

\* s is four runs of decimal digits of value 0..255 with a dot between them
IsDottedQuad(s) ==
  LET dots == { k \in 1..Len(s) : s[k] = Dot }
  IN  /\ Cardinality(dots) = 3
      /\ \E d1, d2, d3 \in dots :
           /\ d1 < d2 /\ d2 < d3
           /\ OctetInRange(SubSeq(s, 1, d1 - 1))
           /\ OctetInRange(SubSeq(s, d1 + 1, d2 - 1))
           /\ OctetInRange(SubSeq(s, d2 + 1, d3 - 1))
           /\ OctetInRange(SubSeq(s, d3 + 1, Len(s)))

\* C8: sanitize_ip succeeds only on four runs of decimal digits of value
\* 0..255 with a dot between them
IpAcceptedOnlyValid ==
  fn_pc = "returned" => IsDottedQuad(fn_in)

\* the text of a template without braces for the iterator value iter: $$ is
\* one $, any other $ the value in decimal, and the rest is copied
RECURSIVE TemplateText(_, _, _)
TemplateText(t, k, iter) ==
  IF k > Len(t) THEN << >>
  ELSE IF t[k] = Dollar /\ At(t, k + 1) = Dollar
    THEN << Dollar >> \o TemplateText(t, k + 2, iter)
  ELSE IF t[k] = Dollar THEN FormatD(iter) \o TemplateText(t, k + 1, iter)
  ELSE << t[k] >> \o TemplateText(t, k + 1, iter)

\* C9: in a template, $$ is rendered as a single $, and the text and the
\* placeholders around it as without it
DollarDollarLiteral ==
  /\ fn_pc = "built"
  /\ \A k \in 1..Len(fn_in.template) :
       fn_in.template[k] # LBrace /\ fn_in.template[k] # RBrace
  => fn_out.text = TemplateText(fn_in.template, 1, fn_in.iter)

\* C10: a run whose input ends inside parentheses does not exit with status
\* 0 and does not rename the temp file to the destination
EofInParenFatal ==
  pc = "exit0" => tok.paren_level = 0

\* C11: the token array of an entry never holds more than 32 tokens, so
\* tokenize never stores to token[k] with k >= 32
AtMost32Tokens ==
  fn_out.num_tokens <= MAX_TOKENS /\ ~fn_out.overrun

\* the entry tk is a resource record with an owner name of its own, which
\* qualify_domain accepts
NamedRecord(tk) ==
  /\ Len(tk) >= 3
  /\ tk[1] # << Space >>
  /\ At(tk[1], 1) # Dollar
  /\ qualify_domain(tk[1], cur_origin, char_signed).ret = 0

\* C12: a record is skipped as out-of-zone, with a warning and no line
\* written, if and only if its qualified owner is neither the top-level
\* origin nor a name under it, whatever the top-level origin is
ZoneMembershipExact ==
  [][pc = "handle" /\ pc' = "tokenize" /\ NamedRecord(Entry)
       => ((out' = out /\ warnings' = warnings + 1)
             <=> ~InZone(origin.text,
                         qualify_domain(Entry[1], cur_origin,
                                        char_signed).text))]_vars

\* C13: the iterator of a $GENERATE loop never wraps around: every pass of
\* the loop leaves it above its value of before, so that the loop ends once
\* it is past stop
GenIteratorAscends ==
  [][pc = "gen" /\ pc' = "gen" => gen'.i > gen.i /\ gen'.stop = gen.stop]_vars

\* the entry tk is the directive of the given name
IsDirective(tk, name) == Len(tk) >= 1 /\ StrCaseEq(tk[1], name)

\* C14: the top-level origin never changes after startup, cur_origin changes
\* only when a $ORIGIN directive is handled, and the default TTL only when a
\* $TTL directive is handled: handling a resource record or a synthetic
\* record of $GENERATE leaves the three unchanged
OriginsAndTtlFramed ==
  [][/\ origin' # origin => pc = "main"
     /\ cur_origin' # cur_origin =>
          \/ pc = "main"
          \/ /\ pc = "handle"
             /\ IsDirective(Entry, Str(<< "$", "O", "R", "I", "G", "I", "N" >>))
     /\ ttl' # ttl =>
          /\ pc = "handle"
          /\ IsDirective(Entry, Str(<< "$", "T", "T", "L" >>))]_vars

\* a record was written after a $ORIGIN and a $TTL directive changed
\* cur_origin and the default TTL, which are as the directives left them
RecordAfterDirectives ==
  /\ pc = "tokenize"
  /\ origin.text = Str(<< "e", "1", "." >>)
  /\ cur_origin.text = Str(<< "s", ".", "e", "1", "." >>)
  /\ ttl = 3600
  /\ Len(out) = 1
  /\ out[1].owner = Str(<< "a", ".", "s", ".", "e", "1", "." >>)

\* a synthetic record of $GENERATE was written with its cur_origin and
\* default TTL as a $ORIGIN directive before it left them
GeneratedAfterOrigin ==
  /\ pc = "gen"
  /\ cur_origin.text = Str(<< "s", ".", "e", "1", "." >>)
  /\ ttl = DEFAULT_TTL
  /\ Len(out) = 1
  /\ out[1].in_gen

\* C15: handling a resource record of at least 3 tokens, handle_entry never
\* reads a token at an index >= num_tokens: the index next of the type token
\* is below num_tokens whatever the TTL and class tokens are
TypeTokenInEntry ==
  fn_pc # "call" => fn_out.kind # "oob"

====
